---- MODULE Spec2Model ----
(***************************************************************************)
(* State-machine model of openshift_ai_manager: ClusterManager             *)
(* (core/cluster_manager.py) and AddonManager (core/addon_manager.py)      *)
(* driving the external control plane through subprocess calls.            *)
(*                                                                         *)
(* One ClusterManager instance and one AddonManager instance are driven    *)
(* by a single sequential caller: either a program that calls their        *)
(* operations one after the other, or one command of the command line      *)
(* (cli.py), a process that constructs its manager, makes the calls of     *)
(* its body and exits.  Every subprocess call draws its exit status and    *)
(* output nondeterministically; the control plane's set of existing        *)
(* clusters is environment state.                                          *)
(***************************************************************************)
EXTENDS Integers, Sequences, FiniteSets, TLC

(* ------------------------------ bounds -------------------------------- *)
\* number of top-level operations the caller invokes in one run
MaxOps == 2
\* longest `items` list of an `oc get csv` answer
MaxCsvs == 2
\* longest stdout of `ocm list addons --columns id,state`, in lines
MaxLines == 2

(* ------------------------- program constants -------------------------- *)
CLUSTER_READY_TIMEOUT == 7200
CLUSTER_DELETED_TIMEOUT == 5400
ADDON_READY_TIMEOUT == 3600
ADDON_UNINSTALLED_TIMEOUT == 3600
OPERATOR_READY_TIMEOUT == 300
POLL_INTERVAL == 60
OPERATOR_POLL_INTERVAL == 10

\* the three dependency operators, in the order of the source list
dependencies == <<"authorino-operator", "servicemeshoperator", "serverless-operator">>

(* ------------------------------ domains ------------------------------- *)
\* Python's None (the initial ClusterManager.cluster_id)
None == "None"
\* cluster names the caller passes
Names == {"demo", "other"}
\* the identifier the control plane gives the cluster of a name
IdOf(n) == IF n = "demo" THEN "id-demo" ELSE "id-other"
\* values of the "state" field of `ocm describe cluster --json`
ClusterStates == {"pending", "ready", "error"}
\* states of the add-on probe ("not installed": absent from the listing)
AddonStates == {"installing", "ready", "failed", "not installed"}
\* CSV phases and names of an `oc get csv` answer
CsvPhases == {"Succeeded", "Failed"}
CsvItems == [match : BOOLEAN, phase : CsvPhases]
CsvLists == UNION {[1..n -> CsvItems] : n \in 0..MaxCsvs}
\* the name add_machine_pool is configured with and the pool names a
\* listing can show, each as its sequence of characters
pool_name == <<"g", "p">>
PoolNames == {<<"g", "p">>, <<"g", "p", "2">>, <<"w">>}
\* stdout of `ocm list machinepools`: the pools listed
PoolListings == SUBSET PoolNames
\* exit statuses of a subprocess
ExitCodes == {0, 1}
\* stdout that json.loads does not accept
NotJson == "not json"
\* what a subprocess with parsed output can answer: a non-zero exit (its
\* output is not read), exit 0 with output that does not parse, or exit 0
\* with one of the outputs in S
Answers(S) ==
    {[rc |-> 1, json_ok |-> FALSE, out |-> "none"],
     [rc |-> 0, json_ok |-> FALSE, out |-> NotJson]}
    \cup {[rc |-> 0, json_ok |-> TRUE, out |-> x] : x \in S}
\* answers of `ocm describe cluster --json` and of `oc get csv -o json`
DescribeAnswers == Answers(ClusterStates)
CsvAnswers == Answers(CsvLists)
\* the same for a subprocess whose output is read as text
TextAnswers(S) ==
    {[rc |-> 1, json_ok |-> TRUE, out |-> "none"]}
    \cup {[rc |-> 0, json_ok |-> TRUE, out |-> x] : x \in S}
\* the add-on an operation is about, and the ids a listing can show: the
\* add-on's own, one that contains it, and another one
addon_name == "addon"
AddonIds == {addon_name, "addon-v2", "other"}
\* Python's `addon_name in word` for the words of a listing
AddonNameIn(word) == word \in {addon_name, "addon-v2"}
\* the words of the state column
ListedStates == {"installing", "ready", "failed"}
\* a line of the listing as `line.strip().split()` gives it: no word (an
\* empty line), an id alone, or an id and a state
AddonLines ==
    {<<>>} \cup {<<i>> : i \in AddonIds}
           \cup {<<i, st>> : i \in AddonIds, st \in ListedStates}
\* stdout of `ocm list addons --columns id,state` as
\* `result.stdout.split('\n')` gives it
AddonListings == UNION {[1..n -> AddonLines] : n \in 0..MaxLines}
\* `if addon_name in line:` the name holds no blank, so it is in the line
\* when it is in one of the line's words
NameInLine(parts) == \E k \in 1..Len(parts) : AddonNameIn(parts[k])
\* mutant: a line that holds the name alone counts too
LineState_AnyColumns(parts) ==
    IF NameInLine(parts) THEN parts[Len(parts)] ELSE "none"
\* what the loop body of _get_addon_state_by_id returns on a line (none:
\* it returns nothing and the loop goes on), parts[1] of Python being
\* the second word
LineState(parts) ==
    IF NameInLine(parts) /\ Len(parts) >= 2 THEN parts[2] ELSE "none"
\* the value _get_addon_state_by_id returns on a stdout: that of the first
\* line the loop body returns on, "not installed" after the loop
RECURSIVE GetAddonStateById(_)
GetAddonStateById(stdout) ==
    IF stdout = <<>> THEN "not installed"
    ELSE IF LineState(Head(stdout)) # "none" THEN LineState(Head(stdout))
    ELSE GetAddonStateById(Tail(stdout))
\* the listing shows the add-on: some line holds its name and has two
\* columns or more
Listed(stdout) ==
    \E k \in 1..Len(stdout) : NameInLine(stdout[k]) /\ Len(stdout[k]) >= 2
\* answers of `ocm list addons --columns id,state`: the exit status, the
\* state the program reads from the stdout, and whether the stdout shows
\* the add-on
ListAddonsAnswers ==
    {[rc |-> 1, json_ok |-> TRUE, out |-> "none", listed |-> FALSE]}
    \cup {[rc |-> 0, json_ok |-> TRUE, out |-> GetAddonStateById(l),
           listed |-> Listed(l)] : l \in AddonListings}
\* no subprocess was started by the step
NoCall ==
    [cmd |-> "none", rc |-> 0, inst |-> "none", arg |-> "none", data |-> "none",
     listed |-> FALSE]
NoOp == [fn |-> "none", name |-> "none", flag |-> FALSE]
\* the ClusterConfig values the model accepts, as far as the request body
\* depends on them: the provider and which credential sets are given
Configs == [cloud_provider : {"aws", "gcp"}, aws_credentials : BOOLEAN,
            gcp_credentials : BOOLEAN]
\* no ClusterConfig at hand
NoConfig == [cloud_provider |-> "none", aws_credentials |-> FALSE, gcp_credentials |-> FALSE]
\* the commands of the command line (cli.py), by the words that select them
Commands ==
    {"cluster create", "cluster delete", "cluster info",
     "addon install-rhods", "addon install-gpu", "addon add-machine-pool",
     "addon uninstall", "addon list"}
\* the caller is not a command of the command line
NoCommand == [cmd |-> "none", force |-> FALSE, confirm |-> FALSE]

VARIABLES
    cluster_id,   \* ClusterManager.cluster_id, the cached handle
    exists,       \* control plane: names whose cluster currently exists
    pc,           \* position of the caller inside the running operation
    op,           \* the running (or last finished) operation and arguments
    local_id,     \* the handler's local variable cluster_id
    count,        \* the wait loop's local variable count
    dep,          \* index into dependencies of the operator being handled
    outcome,      \* how the last operation ended: ok / exception name
    call,         \* the subprocess started by the latest step
    trace,        \* mutating calls and fixed delays of the operation, in order
    probes,       \* probe calls made by the current wait
    sleeps,       \* interval sleeps made by the current wait
    terminalAt,   \* number of the first probe that read a terminal state
    lastProbeAt,  \* value of count when the latest probe was made
    terminalKind, \* what that probe read: success / failure (none: no such probe)
    wait,         \* the wait that is running or ran last in the operation
    goneSeen,     \* a deletion poll ran while the cluster was gone
    listedSeen,   \* a probe of the add-on wait found the add-on listed
    ret,          \* value returned by the last operation (None: nothing)
    am_resolved,  \* names the AddonManager resolved successfully so far
    opsDone,      \* operations invoked so far
    config,       \* the ClusterConfig create_cluster was called with
    cluster_spec, \* keys of the body _generate_cluster_spec built from it
    temp_files,   \* temporary request-body files on the filesystem
    pending,      \* orchestrator calls the running command makes next
    command,      \* the command-line command this process runs, its --force
                  \* flag and the answer to its confirmation prompt
    exit_status   \* the process's exit status (read once pc = "exited")

vars == <<cluster_id, exists, pc, op, local_id, count, dep, outcome, call,
          trace, probes, sleeps, terminalAt, terminalKind, lastProbeAt,
          wait, goneSeen, listedSeen, ret, am_resolved, opsDone,
          config, cluster_spec, temp_files, pending, command, exit_status>>

\* what only the command line changes
clivars == <<command, exit_status>>

\* what only the entry of an operation and the calls that write a request
\* body change
callvars == <<config, cluster_spec, temp_files, pending>>

\* the trackers of one wait
waitvars == <<count, probes, sleeps, terminalAt, terminalKind, lastProbeAt, wait, goneSeen,
             listedSeen>>

TypeOK ==
    /\ cluster_id \in {None} \cup {IdOf(n) : n \in Names}
    /\ exists \subseteq Names
    /\ am_resolved \subseteq Names
    /\ count \in Nat /\ probes \in Nat /\ sleeps \in Nat
    /\ dep \in 0..Len(dependencies)
    /\ opsDone \in 0..(MaxOps + 2)
    /\ config \in Configs \cup {NoConfig}
    /\ temp_files \subseteq {"cluster.json", "addon.json", "subscription.yaml"}
    /\ command \in {NoCommand} \cup [cmd : Commands, force : BOOLEAN, confirm : BOOLEAN]
    /\ exit_status \in ExitCodes

Init ==
    /\ cluster_id = None
    /\ exists \in SUBSET Names
    /\ pc = "idle"
    /\ op = NoOp
    /\ local_id = None
    /\ count = 0
    /\ dep = 0
    /\ outcome = "none"
    /\ call = NoCall
    /\ trace = <<>>
    /\ probes = 0
    /\ sleeps = 0
    /\ terminalAt = 0
    /\ terminalKind = "none"
    /\ wait = "none"
    /\ lastProbeAt = 0
    /\ goneSeen = FALSE
    /\ listedSeen = FALSE
    /\ ret = None
    /\ am_resolved = {}
    /\ opsDone = 0
    /\ config = NoConfig
    /\ cluster_spec = {}
    /\ temp_files = {}
    /\ pending = <<>>
    /\ command = NoCommand
    /\ exit_status = 0

(* --------------------------- shared helpers --------------------------- *)
Cmd(c, rc, inst, arg) ==
    [cmd |-> c, rc |-> rc, inst |-> inst, arg |-> arg, data |-> "none",
     listed |-> FALSE]

\* a subprocess with the request body it was given, or with the stdout
\* the program read from it
CmdData(c, rc, inst, arg, d) ==
    [cmd |-> c, rc |-> rc, inst |-> inst, arg |-> arg, data |-> d,
     listed |-> FALSE]

\* the probe `ocm list addons --columns id,state` with the state the
\* program read from its stdout, and whether the stdout showed the add-on
CmdListing(rc, arg, state, l) ==
    [cmd |-> "list addons", rc |-> rc, inst |-> "am", arg |-> arg,
     data |-> state, listed |-> l]

\* what is kept of the stdout of a call whose output is parsed but not
\* looked into by the model: whether json.loads accepts it
Unparsed(rc, json_ok) == IF rc = 0 /\ ~json_ok THEN NotJson ELSE "none"

\* an entry of trace: what happened, and to what
Ev(e, w) == [ev |-> e, who |-> w]

\* stdout of `ocm list clusters -p search=... --columns id --no-headers`
LookupStdout(name) == IF name \in exists THEN IdOf(name) ELSE ""

\* mutant: the budget is cut short by one interval
WhileCondition_Early(c, timeout) == c + POLL_INTERVAL < timeout

\* mutant: the loop has no budget
WhileCondition_Unbounded(c, timeout) == TRUE

\* `while count <= timeout`
WhileCondition(c, timeout) == c <= timeout

\* the caller may invoke another operation
CanInvoke == pc = "idle" /\ opsDone < MaxOps

\* the running command goes on with its next orchestrator call, fn
Chained(fn) ==
    pc = "done" /\ outcome = "ok" /\ pending # <<>> /\ Head(pending) = fn

\* the orchestrator operation the body of a command calls first
OrchestratorCall(c) ==
    CASE c = "cluster create" -> "create_cluster"
      [] c = "cluster delete" -> "delete_cluster"
      [] c = "cluster info" -> "get_cluster_info"
      [] c = "addon install-rhods" -> "install_rhods"
      [] c = "addon install-gpu" -> "install_gpu_addon"
      [] c = "addon add-machine-pool" -> "add_machine_pool"
      [] c = "addon uninstall" -> "uninstall_addon"
      [] c = "addon list" -> "list_addons"
      [] OTHER -> "none"

\* the running command has come to its call of fn
CliCalls(fn) == pc = "cli" /\ OrchestratorCall(command.cmd) = fn

\* a new operation starts: the per-operation trackers are reset
Begin(fn, name, flag) ==
    /\ CanInvoke \/ (Chained(fn) /\ name = op.name) \/ CliCalls(fn)
    /\ op' = [fn |-> fn, name |-> name, flag |-> flag]
    /\ opsDone' = opsDone + 1
    /\ count' = 0 /\ probes' = 0 /\ sleeps' = 0 /\ terminalAt' = 0
    /\ lastProbeAt' = 0 /\ goneSeen' = FALSE /\ terminalKind' = "none"
    /\ listedSeen' = FALSE
    /\ UNCHANGED clivars

\* a wait starts: `count = 0`
StartWait(w) ==
    /\ wait' = w
    /\ count' = 0 /\ probes' = 0 /\ sleeps' = 0
    /\ terminalAt' = 0 /\ terminalKind' = "none" /\ lastProbeAt' = 0
    /\ UNCHANGED <<goneSeen, listedSeen>>

\* the operation ends with result r
Finish(r) == pc' = "done" /\ outcome' = r

\* `with tempfile.NamedTemporaryFile(..., delete=False) as f:` the file f
\* is on the filesystem
NamedTemporaryFile(files, f) == files \cup {f}

\* mutant: the unlink is the last statement of the try body
UnlinkFinally_OnSuccess(files, f, raised) == IF raised THEN files ELSE files \ {f}

\* `finally: Path(temp_file).unlink(missing_ok=True)`, whether the try
\* body raised or not
UnlinkFinally(files, f, raised) == files \ {f}

(* --------------------------- ClusterManager --------------------------- *)
\* mutant: the cached handle is never consulted
CmCacheHit_Never == FALSE

\* `if self.cluster_id:` the cached handle answers the resolution
CmCacheHit == cluster_id # None

\* mutant: the cached handle answers only for the name it belongs to
CmGetClusterId_Keyed(name, rc) ==
    IF cluster_id = IdOf(name)
    THEN [exc |-> "none", id |-> cluster_id, cache |-> cluster_id, call |-> NoCall]
    ELSE IF rc # 0
    THEN [exc |-> "CalledProcessError", id |-> None, cache |-> cluster_id,
          call |-> Cmd("list clusters", rc, "cm", name)]
    ELSE IF LookupStdout(name) = ""
    THEN [exc |-> "ValueError", id |-> None, cache |-> cluster_id,
          call |-> Cmd("list clusters", rc, "cm", name)]
    ELSE [exc |-> "none", id |-> LookupStdout(name), cache |-> LookupStdout(name),
          call |-> Cmd("list clusters", rc, "cm", name)]

\* mutant: the identifier looked up is returned but not kept
CmGetClusterId_NoStore(name, rc) ==
    IF CmCacheHit
    THEN [exc |-> "none", id |-> cluster_id, cache |-> cluster_id, call |-> NoCall]
    ELSE IF rc # 0
    THEN [exc |-> "CalledProcessError", id |-> None, cache |-> cluster_id,
          call |-> Cmd("list clusters", rc, "cm", name)]
    ELSE IF LookupStdout(name) = ""
    THEN [exc |-> "ValueError", id |-> None, cache |-> cluster_id,
          call |-> Cmd("list clusters", rc, "cm", name)]
    ELSE [exc |-> "none", id |-> LookupStdout(name), cache |-> cluster_id,
          call |-> Cmd("list clusters", rc, "cm", name)]

\* ClusterManager._get_cluster_id(name) with the lookup exiting rc:
\* the exception raised (or "none"), the identifier returned, the value
\* of self.cluster_id afterwards and the subprocess started
CmGetClusterId(name, rc) ==
    IF CmCacheHit
    THEN [exc |-> "none", id |-> cluster_id, cache |-> cluster_id, call |-> NoCall]
    ELSE IF rc # 0
    THEN [exc |-> "CalledProcessError", id |-> None, cache |-> cluster_id,
          call |-> Cmd("list clusters", rc, "cm", name)]
    ELSE IF LookupStdout(name) = ""
    THEN [exc |-> "ValueError", id |-> None, cache |-> cluster_id,
          call |-> Cmd("list clusters", rc, "cm", name)]
    ELSE [exc |-> "none", id |-> LookupStdout(name), cache |-> LookupStdout(name),
          call |-> Cmd("list clusters", rc, "cm", name)]

\* mutant: a handle already held is not replaced
CreateClusterId_KeepsOld(cur, id) == IF cur # None THEN cur ELSE id

\* `self.cluster_id = response.get("id")`: the handle after a creation
\* whose response carries the identifier id
CreateClusterId(cur, id) == id

\* mutant: every state but error counts as ready
ClusterReadyBranch_NotError(state) ==
    IF state # "error" THEN "success" ELSE "failure"

\* the branch wait_for_cluster_ready takes on a probed state
ClusterReadyBranch(state) ==
    IF state = "ready" THEN "success"
    ELSE IF state = "error" THEN "failure"
    ELSE "wait"

\* keys of the body whatever the configuration
BaseSpecKeys ==
    {"name", "cloud_provider", "version", "fips", "region", "multi_az",
     "product", "ccs", "nodes"}

\* ClusterManager._generate_cluster_spec(config): the keys of the body
generate_cluster_spec(cfg) ==
    BaseSpecKeys \cup
        (IF cfg.cloud_provider = "aws" /\ cfg.aws_credentials THEN {"aws"}
         ELSE IF cfg.cloud_provider = "gcp" /\ cfg.gcp_credentials THEN {"gcp"}
         ELSE {})

\* mutant: the create command waits for readiness whatever --wait says
AfterCreate_AlwaysWaits(wait_flag) == <<"wait_for_cluster_ready", "get_cluster_info">>

\* the create command after create_cluster returned: `if wait:`
AfterCreate(wait_flag) ==
    IF wait_flag THEN <<"wait_for_cluster_ready", "get_cluster_info">> ELSE <<>>

\* ClusterManager.create_cluster(config) with config.name = name, called
\* by a command that was given --wait / --no-wait
create_cluster(name, wait_flag, cfg) ==
    /\ Begin("create_cluster", name, wait_flag)
    /\ config' = cfg
    /\ cluster_spec' = generate_cluster_spec(cfg)
    /\ pending' = AfterCreate(wait_flag)
    /\ \E rc \in ExitCodes, json_ok \in BOOLEAN :
        /\ temp_files' = UnlinkFinally(NamedTemporaryFile(temp_files, "cluster.json"),
                                       "cluster.json", rc # 0 \/ ~json_ok)
        /\ call' = CmdData("post clusters", rc, "cm", name, Unparsed(rc, json_ok))
        /\ trace' = <<Ev("post clusters", name)>>
        /\ IF rc # 0
           THEN /\ Finish("CalledProcessError")
                /\ ret' = None
                /\ UNCHANGED <<cluster_id, exists>>
           ELSE /\ exists' = exists \cup {name}
                /\ IF ~json_ok
                   THEN Finish("JSONDecodeError") /\ ret' = None /\ UNCHANGED cluster_id
                   ELSE /\ cluster_id' = CreateClusterId(cluster_id, IdOf(name))
                        /\ ret' = cluster_id'
                        /\ Finish("ok")
    /\ wait' = "none"
    /\ UNCHANGED <<local_id, dep, am_resolved>>

\* entry of a ClusterManager operation that starts with
\* `cluster_id = self._get_cluster_id(cluster_name)`
CmResolveThen(fn, name, next, w) ==
    /\ Begin(fn, name, FALSE)
    /\ \E rc \in ExitCodes :
        LET r == CmGetClusterId(name, rc) IN
        /\ cluster_id' = r.cache
        /\ call' = r.call
        /\ local_id' = r.id
        /\ IF r.exc # "none" THEN Finish(r.exc) /\ wait' = "none"
           ELSE pc' = next /\ outcome' = "running" /\ wait' = w
    /\ trace' = IF Chained(fn) THEN trace ELSE <<>>
    /\ pending' = IF Chained(fn) THEN Tail(pending) ELSE <<>>
    /\ config' = NoConfig /\ cluster_spec' = {}
    /\ ret' = None
    /\ UNCHANGED <<exists, dep, am_resolved, temp_files>>

\* mutant: the settle delay is slept before the state is looked at
ClusterReadySettle_Unconditional(branch, id) == <<Ev("settle", id)>>

\* the `time.sleep(300)` of wait_for_cluster_ready: slept in the ready
\* branch only
ClusterReadySettle(branch, id) ==
    IF branch = "success" THEN <<Ev("settle", id)>> ELSE <<>>

\* ClusterManager.wait_for_cluster_ready(name): the resolution
wait_for_cluster_ready(name) ==
    CmResolveThen("wait_for_cluster_ready", name, "wait_for_cluster_ready", "cluster_ready")

\* one pass of wait_for_cluster_ready's loop, or its end by timeout
wait_for_cluster_ready_loop ==
    /\ pc = "wait_for_cluster_ready"
    /\ IF ~WhileCondition(count, CLUSTER_READY_TIMEOUT)
       THEN /\ Finish("TimeoutError")
            /\ call' = NoCall
            /\ UNCHANGED <<trace, waitvars>>
       ELSE \E a \in DescribeAnswers :
            LET rc == a.rc
                json_ok == a.json_ok
                state == a.out
                read == rc = 0 /\ json_ok
                branch == ClusterReadyBranch(state) IN
            /\ call' = CmdData("describe cluster", rc, "cm", local_id, state)
            /\ probes' = probes + 1
            /\ lastProbeAt' = count
            /\ terminalAt' = IF terminalAt = 0 /\ read /\ state \in {"ready", "error"}
                             THEN probes + 1 ELSE terminalAt
            /\ terminalKind' = IF terminalAt = 0 /\ read /\ state \in {"ready", "error"}
                               THEN (IF state = "ready" THEN "success" ELSE "failure")
                               ELSE terminalKind
            /\ IF rc # 0 THEN Finish("CalledProcessError") /\ UNCHANGED <<trace, count, sleeps>>
               ELSE IF ~json_ok THEN Finish("JSONDecodeError") /\ UNCHANGED <<trace, count, sleeps>>
               ELSE IF branch = "success"
               THEN /\ trace' = trace \o ClusterReadySettle(branch, local_id)
                    /\ Finish("ok")
                    /\ UNCHANGED <<count, sleeps>>
               ELSE IF branch = "failure"
               THEN /\ trace' = trace \o ClusterReadySettle(branch, local_id)
                    /\ Finish("RuntimeError")
                    /\ UNCHANGED <<count, sleeps>>
               ELSE /\ sleeps' = sleeps + 1
                    /\ count' = count + POLL_INTERVAL
                    /\ UNCHANGED <<pc, outcome, trace>>
            /\ UNCHANGED <<wait, goneSeen, listedSeen>>
    /\ UNCHANGED callvars
    /\ UNCHANGED <<cluster_id, exists, op, local_id, dep, ret, am_resolved, opsDone>>
    /\ UNCHANGED clivars

\* ClusterManager.delete_cluster(name): the resolution
delete_cluster(name) ==
    CmResolveThen("delete_cluster", name, "delete_cluster", "none")

\* delete_cluster: `ocm delete cluster <id>`
delete_cluster_submit ==
    /\ pc = "delete_cluster"
    /\ \E rc \in ExitCodes :
        /\ call' = Cmd("delete cluster", rc, "cm", local_id)
        /\ trace' = Append(trace, Ev("delete cluster", local_id))
        /\ IF rc # 0 THEN Finish("CalledProcessError") /\ UNCHANGED waitvars
           ELSE pc' = "wait_for_cluster_deleted" /\ StartWait("cluster_deleted") /\ UNCHANGED outcome
    /\ UNCHANGED callvars
    /\ UNCHANGED <<cluster_id, exists, op, local_id, dep, ret, am_resolved, opsDone>>
    /\ UNCHANGED clivars

\* mutant: every pass of the loop issues the delete command again
wait_for_cluster_deleted_Reissues ==
    /\ pc = "wait_for_cluster_deleted"
    /\ IF ~WhileCondition(count, CLUSTER_DELETED_TIMEOUT)
       THEN /\ Finish("TimeoutError")
            /\ call' = NoCall
            /\ UNCHANGED <<cluster_id, trace, waitvars>>
       ELSE /\ call' = Cmd("delete cluster", 0, "cm", local_id)
            /\ trace' = Append(trace, Ev("delete cluster", local_id))
            /\ probes' = probes + 1
            /\ lastProbeAt' = count
            /\ goneSeen' = (goneSeen \/ op.name \notin exists)
            /\ UNCHANGED listedSeen
            /\ sleeps' = sleeps + 1
            /\ count' = count + POLL_INTERVAL
            /\ UNCHANGED <<cluster_id, pc, outcome, terminalAt, terminalKind, wait>>
    /\ UNCHANGED callvars
    /\ UNCHANGED <<exists, op, local_id, dep, ret, am_resolved, opsDone>>
    /\ UNCHANGED clivars

\* one pass of _wait_for_cluster_deleted's loop, or its end by timeout
wait_for_cluster_deleted ==
    /\ pc = "wait_for_cluster_deleted"
    /\ IF ~WhileCondition(count, CLUSTER_DELETED_TIMEOUT)
       THEN /\ Finish("TimeoutError")
            /\ call' = NoCall
            /\ UNCHANGED <<cluster_id, waitvars>>
       ELSE \E rc \in ExitCodes :
            LET r == CmGetClusterId(op.name, rc) IN
            /\ cluster_id' = r.cache
            /\ call' = r.call
            /\ probes' = probes + 1
            /\ lastProbeAt' = count
            /\ goneSeen' = (goneSeen \/ op.name \notin exists)
            /\ UNCHANGED listedSeen
            /\ terminalAt' = IF terminalAt = 0 /\ r.exc = "ValueError"
                             THEN probes + 1 ELSE terminalAt
            /\ terminalKind' = IF terminalAt = 0 /\ r.exc = "ValueError"
                               THEN "success" ELSE terminalKind
            /\ IF r.exc = "ValueError" THEN Finish("ok") /\ UNCHANGED <<count, sleeps>>
               ELSE IF r.exc # "none" THEN Finish(r.exc) /\ UNCHANGED <<count, sleeps>>
               ELSE /\ sleeps' = sleeps + 1
                    /\ count' = count + POLL_INTERVAL
                    /\ UNCHANGED <<pc, outcome>>
            /\ UNCHANGED wait
    /\ UNCHANGED callvars
    /\ UNCHANGED <<exists, op, local_id, dep, trace, ret, am_resolved, opsDone>>
    /\ UNCHANGED clivars

\* ClusterManager.get_cluster_info(name): the resolution
get_cluster_info(name) ==
    CmResolveThen("get_cluster_info", name, "get_cluster_info", "none")

\* mutant: the state is answered from what the instance was told before,
\* without a describe call
get_cluster_info_describe_Remembered ==
    /\ pc = "get_cluster_info"
    /\ call' = NoCall
    /\ Finish("ok") /\ ret' = "pending"
    /\ UNCHANGED callvars
    /\ UNCHANGED <<cluster_id, exists, op, local_id, dep, trace, am_resolved, opsDone, waitvars>>
    /\ UNCHANGED clivars

\* get_cluster_info: `ocm describe cluster <id> --json` and the extraction
get_cluster_info_describe ==
    /\ pc = "get_cluster_info"
    /\ \E a \in DescribeAnswers :
        LET rc == a.rc
            json_ok == a.json_ok
            state == a.out IN
        /\ call' = CmdData("describe cluster", rc, "cm", local_id, state)
        /\ IF rc # 0 THEN Finish("CalledProcessError") /\ ret' = None
           ELSE IF ~json_ok THEN Finish("JSONDecodeError") /\ ret' = None
           ELSE Finish("ok") /\ ret' = state
    /\ UNCHANGED callvars
    /\ UNCHANGED <<cluster_id, exists, op, local_id, dep, trace, am_resolved, opsDone, waitvars>>
    /\ UNCHANGED clivars

\* the operation's result is with the caller, which goes on: nothing of
\* the finished call is left but the instance state
caller_continues ==
    /\ pc = "done"
    /\ command = NoCommand
    /\ pending = <<>> \/ outcome # "ok"
    /\ config' = NoConfig /\ cluster_spec' = {} /\ pending' = <<>>
    /\ pc' = "idle"
    /\ op' = NoOp /\ local_id' = None /\ dep' = 0 /\ outcome' = "none"
    /\ call' = NoCall /\ trace' = <<>> /\ ret' = None
    /\ count' = 0 /\ probes' = 0 /\ sleeps' = 0 /\ terminalAt' = 0
    /\ terminalKind' = "none" /\ lastProbeAt' = 0 /\ wait' = "none"
    /\ goneSeen' = FALSE /\ listedSeen' = FALSE
    /\ UNCHANGED <<cluster_id, exists, am_resolved, opsDone, temp_files>>
    /\ UNCHANGED clivars

(* ---------------------------- control plane --------------------------- *)
\* the control plane finishes removing a cluster (a submitted deletion
\* completes, or somebody else deleted it).  The program sees the removal
\* only through a lookup, and lookups are made by the first step of an
\* operation and by the deletion polls: a removal at any other moment
\* behaves like one made right before the next of these steps, so it is
\* taken there.
ControlPlaneRemoves(n) ==
    /\ CanInvoke \/ pc = "wait_for_cluster_deleted"
    /\ n \in exists
    /\ exists' = exists \ {n}
    /\ call' = NoCall
    /\ UNCHANGED callvars
    /\ UNCHANGED <<cluster_id, pc, op, local_id, dep, outcome, trace, ret,
                   am_resolved, opsDone, waitvars>>
    /\ UNCHANGED clivars

(* ---------------------------- AddonManager ---------------------------- *)
\* mutant: the empty identifier is returned like any other
AmGetClusterId_NoCheck(name, rc) ==
    IF rc # 0
    THEN [exc |-> "CalledProcessError", id |-> None,
          call |-> Cmd("list clusters", rc, "am", name)]
    ELSE [exc |-> "none", id |-> LookupStdout(name),
          call |-> Cmd("list clusters", rc, "am", name)]

\* AddonManager._get_cluster_id(name) with the lookup exiting rc
AmGetClusterId(name, rc) ==
    IF rc # 0
    THEN [exc |-> "CalledProcessError", id |-> None,
          call |-> Cmd("list clusters", rc, "am", name)]
    ELSE IF LookupStdout(name) = ""
    THEN [exc |-> "ValueError", id |-> None,
          call |-> Cmd("list clusters", rc, "am", name)]
    ELSE [exc |-> "none", id |-> LookupStdout(name),
          call |-> Cmd("list clusters", rc, "am", name)]

\* entry of an AddonManager operation that starts with
\* `cluster_id = self._get_cluster_id(cluster_name)`
AmResolveThen(fn, name, flag, next, d) ==
    /\ Begin(fn, name, flag)
    /\ \E rc \in ExitCodes :
        LET r == AmGetClusterId(name, rc) IN
        /\ call' = r.call
        /\ local_id' = r.id
        /\ IF r.exc # "none"
           THEN Finish(r.exc) /\ dep' = 0 /\ UNCHANGED am_resolved
           ELSE /\ pc' = next /\ outcome' = "running" /\ dep' = d
                /\ am_resolved' = am_resolved \cup {name}
    /\ trace' = <<>>
    /\ ret' = None
    /\ wait' = "none"
    /\ config' = NoConfig /\ cluster_spec' = {} /\ pending' = <<>>
    /\ UNCHANGED <<cluster_id, exists, temp_files>>

\* mutant: the dependency operators are installed whatever the flag
RhodsFirstStep_AlwaysOperators(install_dependencies) == "install_operator"

\* `if config.install_dependencies:` where install_rhods goes after the resolution
RhodsFirstStep(install_dependencies) ==
    IF install_dependencies THEN "install_operator" ELSE "install_addon"

\* AddonManager.install_rhods(name, config): the resolution
install_rhods(name, install_dependencies) ==
    AmResolveThen("install_rhods", name, install_dependencies,
                  RhodsFirstStep(install_dependencies),
                  IF install_dependencies THEN 1 ELSE 0)

\* mutant: `oc apply` is run without check=True
install_operator_IgnoresFailure ==
    /\ pc = "install_operator"
    /\ \E rc \in ExitCodes :
        /\ temp_files' = UnlinkFinally(NamedTemporaryFile(temp_files, "subscription.yaml"),
                                       "subscription.yaml", FALSE)
        /\ call' = Cmd("oc apply", rc, "am", dependencies[dep])
        /\ trace' = Append(trace, Ev("oc apply", dependencies[dep]))
        /\ pc' = "wait_for_operator_ready" /\ StartWait("operator_ready") /\ UNCHANGED outcome
    /\ UNCHANGED <<config, cluster_spec, pending>>
    /\ UNCHANGED <<cluster_id, exists, op, local_id, dep, ret, am_resolved, opsDone>>
    /\ UNCHANGED clivars

\* _install_operator(dependencies[dep]): `oc apply -f <file>`
install_operator ==
    /\ pc = "install_operator"
    /\ \E rc \in ExitCodes :
        /\ temp_files' = UnlinkFinally(NamedTemporaryFile(temp_files, "subscription.yaml"),
                                       "subscription.yaml", rc # 0)
        /\ call' = Cmd("oc apply", rc, "am", dependencies[dep])
        /\ trace' = Append(trace, Ev("oc apply", dependencies[dep]))
        /\ IF rc # 0 THEN Finish("CalledProcessError") /\ UNCHANGED waitvars
           ELSE pc' = "wait_for_operator_ready" /\ StartWait("operator_ready") /\ UNCHANGED outcome
    /\ UNCHANGED <<config, cluster_spec, pending>>
    /\ UNCHANGED <<cluster_id, exists, op, local_id, dep, ret, am_resolved, opsDone>>
    /\ UNCHANGED clivars

\* mutant: the loop goes on to the last CSV of the operator
FirstMatch_Last(csvs) ==
    IF \E i \in 1..Len(csvs) : csvs[i].match
    THEN CHOOSE i \in 1..Len(csvs) :
            csvs[i].match /\ \A j \in (i + 1)..Len(csvs) : ~csvs[j].match
    ELSE 0

\* index of the first CSV whose lower-cased name contains the operator
\* name (0: none): the item the `for` loop stops at
FirstMatch(csvs) ==
    IF \E i \in 1..Len(csvs) : csvs[i].match
    THEN CHOOSE i \in 1..Len(csvs) :
            csvs[i].match /\ \A j \in 1..(i - 1) : ~csvs[j].match
    ELSE 0

\* the phase the loop body looks at: that of the item FirstMatch stops at
ExaminedPhase(csvs) ==
    IF FirstMatch(csvs) = 0 THEN "missing" ELSE csvs[FirstMatch(csvs)].phase

\* the probe of _wait_for_operator_ready returns from the wait
OperatorSucceeded(csvs) ==
    FirstMatch(csvs) # 0 /\ csvs[FirstMatch(csvs)].phase = "Succeeded"

\* mutant: the failing probe is not caught
OperatorProbeFailure_Raise == "raise"

\* what _wait_for_operator_ready does when `oc get csv` exits non-zero:
\* "retry" (except CalledProcessError: pass) or "raise"
OperatorProbeFailure == "retry"

\* mutant: output that does not parse is taken for a CSV list without
\* the operator
OperatorParseFailure_Retry == "retry"

\* what _wait_for_operator_ready does when json.loads raises inside its
\* try block: "raise" (JSONDecodeError is not a CalledProcessError, the
\* except clause does not catch it) or "retry"
OperatorParseFailure == "raise"

\* mutant: the loop over the dependencies is left after the first one
AfterOperator_StopsAfterFirst == pc' = "install_addon" /\ dep' = dep

\* where _install_dependency_operators goes when a wait has returned
AfterOperator ==
    IF dep < Len(dependencies)
    THEN pc' = "install_operator" /\ dep' = dep + 1
    ELSE pc' = "install_addon" /\ dep' = dep

\* the answer lists, before any other CSV of the operator, one in phase Succeeded
SucceededRead(csvs) ==
    \E i \in 1..Len(csvs) :
        /\ csvs[i].match /\ csvs[i].phase = "Succeeded"
        /\ \A j \in 1..(i - 1) : ~csvs[j].match

\* mutant: the operator wait raises like the other waits
OperatorTimeoutOutcome_Raises == "TimeoutError"

\* how _wait_for_operator_ready ends when the loop runs out: "warning"
\* (print and return) or "TimeoutError"
OperatorTimeoutOutcome == "warning"

\* one pass of _wait_for_operator_ready's loop, or its end by timeout
wait_for_operator_ready ==
    /\ pc = "wait_for_operator_ready"
    /\ IF ~WhileCondition(count, OPERATOR_READY_TIMEOUT)
       THEN /\ IF OperatorTimeoutOutcome = "warning"
               THEN /\ trace' = Append(trace, Ev("warning", dependencies[dep]))
                    /\ AfterOperator
                    /\ UNCHANGED outcome
               ELSE Finish("TimeoutError") /\ UNCHANGED <<trace, dep>>
            /\ call' = NoCall
            /\ UNCHANGED waitvars
       ELSE \E a \in CsvAnswers :
            LET rc == a.rc
                json_ok == a.json_ok
                csvs == IF rc = 0 /\ json_ok THEN a.out ELSE <<>> IN
            /\ call' = CmdData("oc get csv", rc, "am", dependencies[dep],
                                IF rc = 0 /\ json_ok THEN ExaminedPhase(csvs)
                                ELSE Unparsed(rc, json_ok))
            /\ probes' = probes + 1
            /\ lastProbeAt' = count
            /\ terminalAt' = IF terminalAt = 0 /\ rc = 0 /\ json_ok /\ SucceededRead(csvs)
                             THEN probes + 1 ELSE terminalAt
            /\ terminalKind' = IF terminalAt = 0 /\ rc = 0 /\ json_ok /\ SucceededRead(csvs)
                               THEN "success" ELSE terminalKind
            /\ IF rc # 0 /\ OperatorProbeFailure = "raise"
               THEN Finish("CalledProcessError") /\ UNCHANGED <<trace, dep, count, sleeps>>
               ELSE IF rc = 0 /\ ~json_ok /\ OperatorParseFailure = "raise"
               THEN Finish("JSONDecodeError") /\ UNCHANGED <<trace, dep, count, sleeps>>
               ELSE IF rc = 0 /\ OperatorSucceeded(csvs)
               THEN /\ trace' = Append(trace, Ev("ready", dependencies[dep]))
                    /\ AfterOperator
                    /\ UNCHANGED <<outcome, count, sleeps>>
               ELSE /\ sleeps' = sleeps + 1
                    /\ count' = count + OPERATOR_POLL_INTERVAL
                    /\ UNCHANGED <<pc, outcome, trace, dep>>
            /\ UNCHANGED <<wait, goneSeen, listedSeen>>
    /\ UNCHANGED callvars
    /\ UNCHANGED <<cluster_id, exists, op, local_id, ret, am_resolved, opsDone>>
    /\ UNCHANGED clivars

\* mutant: both installs send the same body
AddonSpec_AlwaysParameters(fn) ==
    {"kind", "href", "addon", "parameters.notification-email"}

\* the addon_spec literal of install_rhods / install_gpu_addon: its
\* top-level keys, and the parameter items under "parameters"
AddonSpec(fn) ==
    {"kind", "href", "addon"} \cup
        (IF fn = "install_rhods" THEN {"parameters.notification-email"} ELSE {})

\* _install_addon(cluster_id, addon_spec): `ocm post .../addons --body=<file>`
install_addon ==
    /\ pc = "install_addon"
    /\ \E rc \in ExitCodes :
        /\ temp_files' = UnlinkFinally(NamedTemporaryFile(temp_files, "addon.json"),
                                       "addon.json", rc # 0)
        /\ call' = CmdData("post addon", rc, "am", local_id, AddonSpec(op.fn))
        /\ trace' = Append(trace, Ev("post addon", op.fn))
        /\ IF rc # 0 THEN Finish("CalledProcessError") /\ UNCHANGED waitvars
           ELSE pc' = "wait_for_addon_ready" /\ StartWait("addon_ready") /\ UNCHANGED outcome
    /\ UNCHANGED <<config, cluster_spec, pending>>
    /\ UNCHANGED <<cluster_id, exists, op, local_id, dep, ret, am_resolved, opsDone>>
    /\ UNCHANGED clivars

\* mutant: the failed state is not recognised
AddonReadyBranch_NoFailure(state) ==
    IF state = "ready" THEN "success" ELSE "wait"

\* the branch _wait_for_addon_ready takes on a probed state
AddonReadyBranch(state) ==
    IF state = "ready" THEN "success"
    ELSE IF state = "failed" THEN "failure"
    ELSE "wait"

\* one pass of _wait_for_addon_ready's loop, or its end by timeout; after
\* the wait returned the caller sleeps the settle delay and returns
wait_for_addon_ready ==
    /\ pc = "wait_for_addon_ready"
    /\ IF ~WhileCondition(count, ADDON_READY_TIMEOUT)
       THEN /\ Finish("TimeoutError")
            /\ call' = NoCall
            /\ UNCHANGED <<trace, waitvars>>
       ELSE \E a \in ListAddonsAnswers :
            LET rc == a.rc
                state == a.out
                branch == AddonReadyBranch(state) IN
            /\ call' = CmdListing(rc, local_id, state, a.listed)
            /\ listedSeen' = (listedSeen \/ a.listed)
            /\ probes' = probes + 1
            /\ lastProbeAt' = count
            /\ terminalAt' = IF terminalAt = 0 /\ rc = 0 /\ state \in {"ready", "failed"}
                             THEN probes + 1 ELSE terminalAt
            /\ terminalKind' = IF terminalAt = 0 /\ rc = 0 /\ state \in {"ready", "failed"}
                               THEN (IF state = "ready" THEN "success" ELSE "failure")
                               ELSE terminalKind
            /\ IF rc # 0 THEN Finish("CalledProcessError") /\ UNCHANGED <<trace, count, sleeps>>
               ELSE IF branch = "success"
               THEN /\ trace' = Append(trace, Ev("settle", local_id))
                    /\ Finish("ok")
                    /\ UNCHANGED <<count, sleeps>>
               ELSE IF branch = "failure"
               THEN Finish("RuntimeError") /\ UNCHANGED <<trace, count, sleeps>>
               ELSE /\ sleeps' = sleeps + 1
                    /\ count' = count + POLL_INTERVAL
                    /\ UNCHANGED <<pc, outcome, trace>>
            /\ UNCHANGED <<wait, goneSeen>>
    /\ UNCHANGED callvars
    /\ UNCHANGED <<cluster_id, exists, op, local_id, dep, ret, am_resolved, opsDone>>
    /\ UNCHANGED clivars

\* AddonManager.install_gpu_addon(name, config): the resolution
install_gpu_addon(name) ==
    AmResolveThen("install_gpu_addon", name, FALSE, "install_addon", 0)

\* AddonManager.uninstall_addon(name, addon): the resolution
uninstall_addon(name) ==
    AmResolveThen("uninstall_addon", name, FALSE, "uninstall_addon", 0)

\* uninstall_addon: `ocm delete .../addons/<addon>`
uninstall_addon_submit ==
    /\ pc = "uninstall_addon"
    /\ \E rc \in ExitCodes :
        /\ call' = Cmd("delete addon", rc, "am", local_id)
        /\ trace' = Append(trace, Ev("delete addon", local_id))
        /\ IF rc # 0 THEN Finish("CalledProcessError") /\ UNCHANGED waitvars
           ELSE pc' = "wait_for_addon_uninstalled" /\ StartWait("addon_uninstalled") /\ UNCHANGED outcome
    /\ UNCHANGED callvars
    /\ UNCHANGED <<cluster_id, exists, op, local_id, dep, ret, am_resolved, opsDone>>
    /\ UNCHANGED clivars

\* mutant: every state but ready counts as uninstalled
AddonUninstalledBranch_NotReady(state) ==
    IF state # "ready" THEN "success" ELSE "wait"

\* the branch _wait_for_addon_uninstalled takes on a probed state
AddonUninstalledBranch(state) ==
    IF state = "not installed" THEN "success" ELSE "wait"

\* one pass of _wait_for_addon_uninstalled's loop, or its end by timeout
wait_for_addon_uninstalled ==
    /\ pc = "wait_for_addon_uninstalled"
    /\ IF ~WhileCondition(count, ADDON_UNINSTALLED_TIMEOUT)
       THEN /\ Finish("TimeoutError")
            /\ call' = NoCall
            /\ UNCHANGED waitvars
       ELSE \E a \in ListAddonsAnswers :
            LET rc == a.rc
                state == a.out IN
            /\ call' = CmdListing(rc, local_id, state, a.listed)
            /\ listedSeen' = (listedSeen \/ a.listed)
            /\ probes' = probes + 1
            /\ lastProbeAt' = count
            /\ terminalAt' = IF terminalAt = 0 /\ rc = 0 /\ state = "not installed"
                             THEN probes + 1 ELSE terminalAt
            /\ terminalKind' = IF terminalAt = 0 /\ rc = 0 /\ state = "not installed"
                               THEN "success" ELSE terminalKind
            /\ IF rc # 0 THEN Finish("CalledProcessError") /\ UNCHANGED <<count, sleeps>>
               ELSE IF AddonUninstalledBranch(state) = "success"
               THEN Finish("ok") /\ UNCHANGED <<count, sleeps>>
               ELSE /\ sleeps' = sleeps + 1
                    /\ count' = count + POLL_INTERVAL
                    /\ UNCHANGED <<pc, outcome>>
            /\ UNCHANGED <<wait, goneSeen>>
    /\ UNCHANGED callvars
    /\ UNCHANGED <<cluster_id, exists, op, local_id, dep, trace, ret, am_resolved, opsDone>>
    /\ UNCHANGED clivars

\* `if config.reuse_existing and ...`: where add_machine_pool goes after
\* the resolution (`and` does not evaluate its right side on False)
MachinePoolFirstStep(reuse_existing) ==
    IF reuse_existing THEN "machine_pool_exists" ELSE "create_machinepool"

\* AddonManager.add_machine_pool(name, config): the resolution
add_machine_pool(name, reuse_existing) ==
    AmResolveThen("add_machine_pool", name, reuse_existing,
                  MachinePoolFirstStep(reuse_existing), 0)

\* Python's `needle in hay` for two strings (sequences of characters)
IsIn(needle, hay) ==
    \E i \in 0..(Len(hay) - Len(needle)) : SubSeq(hay, i + 1, i + Len(needle)) = needle

\* mutant: the test is inverted
PoolNameInStdout_Negated(listing) == ~ \E line \in listing : IsIn(pool_name, line)

\* mutant: the listing is searched for a pool of exactly that name
PoolNameInStdout_Exact(listing) == pool_name \in listing

\* `pool_name in result.stdout`: some line of the listing contains the name
PoolNameInStdout(listing) == \E line \in listing : IsIn(pool_name, line)

\* _machine_pool_exists: `ocm list machinepools`, `pool_name in stdout`
machine_pool_exists ==
    /\ pc = "machine_pool_exists"
    /\ \E rc \in ExitCodes, listing \in PoolListings :
        /\ rc # 0 => listing = {}
        /\ call' = CmdData("list machinepools", rc, "am", local_id, listing)
        /\ IF rc # 0 THEN Finish("CalledProcessError")
           ELSE IF PoolNameInStdout(listing) THEN Finish("ok")
           ELSE pc' = "create_machinepool" /\ UNCHANGED outcome
    /\ UNCHANGED callvars
    /\ UNCHANGED <<cluster_id, exists, op, local_id, dep, trace, ret, am_resolved,
                   opsDone, waitvars>>
    /\ UNCHANGED clivars

\* add_machine_pool: `ocm create machinepool`, then time.sleep(60)
create_machinepool ==
    /\ pc = "create_machinepool"
    /\ \E rc \in ExitCodes :
        /\ call' = Cmd("create machinepool", rc, "am", local_id)
        /\ IF rc # 0
           THEN /\ Finish("CalledProcessError")
                /\ trace' = Append(trace, Ev("create machinepool", local_id))
           ELSE /\ Finish("ok")
                /\ trace' = trace \o <<Ev("create machinepool", local_id),
                                       Ev("sleep 60", local_id)>>
    /\ UNCHANGED callvars
    /\ UNCHANGED <<cluster_id, exists, op, local_id, dep, ret, am_resolved,
                   opsDone, waitvars>>
    /\ UNCHANGED clivars

\* AddonManager.list_addons(name): the resolution
list_addons(name) ==
    AmResolveThen("list_addons", name, FALSE, "list_addons", 0)

\* list_addons: `ocm list addons --output json` and json.loads
list_addons_list ==
    /\ pc = "list_addons"
    /\ \E rc \in ExitCodes, json_ok \in BOOLEAN :
        /\ call' = CmdData("list addons json", rc, "am", local_id, Unparsed(rc, json_ok))
        /\ IF rc # 0 THEN Finish("CalledProcessError")
           ELSE IF ~json_ok THEN Finish("JSONDecodeError")
           ELSE Finish("ok")
    /\ UNCHANGED callvars
    /\ UNCHANGED <<cluster_id, exists, op, local_id, dep, trace, ret, am_resolved,
                   opsDone, waitvars>>
    /\ UNCHANGED clivars

(* ---------------------------- command line ---------------------------- *)
\* the commands that ask for confirmation
Destructive == {"cluster delete", "addon uninstall"}

\* mutant: the command goes on whatever the prompt was answered
Proceeds_Always(c, force, confirm) == TRUE

\* `if not force: confirm = typer.confirm(...); if not confirm: raise
\* typer.Exit()`: the command goes on to its body
Proceeds(c, force, confirm) == c \in Destructive => (force \/ confirm)

\* what the body of a command does first: the cluster commands log in
\* (create installs the ocm binary before), the add-on commands call
\* their operation at once
FirstStep(c) ==
    IF c = "cluster create" THEN "install_ocm_cli"
    ELSE IF c \in {"cluster delete", "cluster info"} THEN "login"
    ELSE "cli"

\* mutant: the handler reports the error and leaves with status 0
ExitStatus_AlwaysZero(result) == 0

\* the status a command ends with: `except Exception: raise typer.Exit(1)`
\* when a call of its body raised, 0 when the body ran to its end
ExitStatus(result) == IF result \in {"ok", "none"} THEN 0 ELSE 1

\* a process is started for command c: the confirmation of a destructive
\* command, then the construction of the manager (a ClusterManager starts
\* with cluster_id = None)
cli_command(c, force, confirm) ==
    /\ pc = "idle" /\ opsDone = 0 /\ command = NoCommand
    /\ (force \/ c \notin Destructive) => ~confirm
    /\ command' = [cmd |-> c, force |-> force, confirm |-> confirm]
    /\ cluster_id' = None
    /\ call' = NoCall
    /\ IF Proceeds(c, force, confirm)
       THEN pc' = FirstStep(c) /\ UNCHANGED exit_status
       ELSE pc' = "exited" /\ exit_status' = 0
    /\ UNCHANGED callvars
    /\ UNCHANGED <<exists, op, local_id, dep, outcome, trace, ret, am_resolved,
                   opsDone, waitvars>>

\* ClusterManager.install_ocm_cli: `ocm version`; a failure of it is
\* caught and the binary is downloaded
install_ocm_cli ==
    /\ pc = "install_ocm_cli"
    /\ \E rc \in ExitCodes :
        /\ call' = Cmd("ocm version", rc, "cm", "none")
        /\ pc' = IF rc = 0 THEN "login" ELSE "install_ocm_cli_download"
    /\ UNCHANGED callvars
    /\ UNCHANGED clivars
    /\ UNCHANGED <<cluster_id, exists, op, local_id, dep, outcome, trace, ret,
                   am_resolved, opsDone, waitvars>>

\* install_ocm_cli: `sudo curl -Lo /bin/ocm <url>`, then `sudo chmod +x`
install_ocm_cli_download ==
    /\ pc = "install_ocm_cli_download"
    /\ \E curl \in ExitCodes, chmod \in ExitCodes :
        /\ curl # 0 => chmod = 0
        /\ call' = IF curl # 0 THEN Cmd("curl", curl, "cm", "none")
                   ELSE Cmd("chmod", chmod, "cm", "none")
        /\ IF curl # 0 \/ chmod # 0 THEN Finish("CalledProcessError")
           ELSE pc' = "login" /\ UNCHANGED outcome
    /\ UNCHANGED callvars
    /\ UNCHANGED clivars
    /\ UNCHANGED <<cluster_id, exists, op, local_id, dep, trace, ret,
                   am_resolved, opsDone, waitvars>>

\* ClusterManager.login: `ocm login --token=...`
login ==
    /\ pc = "login"
    /\ \E rc \in ExitCodes :
        /\ call' = Cmd("login", rc, "cm", "none")
        /\ IF rc # 0 THEN Finish("CalledProcessError")
           ELSE pc' = "cli" /\ UNCHANGED outcome
    /\ UNCHANGED callvars
    /\ UNCHANGED clivars
    /\ UNCHANGED <<cluster_id, exists, op, local_id, dep, trace, ret,
                   am_resolved, opsDone, waitvars>>

\* the body of the command has raised or has run to its end: the process
\* exits, and nothing of it is left but its exit status
cli_exit ==
    /\ pc = "done"
    /\ command # NoCommand
    /\ pending = <<>> \/ outcome # "ok"
    /\ pc' = "exited"
    /\ exit_status' = ExitStatus(outcome)
    /\ config' = NoConfig /\ cluster_spec' = {} /\ pending' = <<>>
    /\ op' = NoOp /\ local_id' = None /\ dep' = 0 /\ outcome' = "none"
    /\ call' = NoCall /\ trace' = <<>> /\ ret' = None
    /\ count' = 0 /\ probes' = 0 /\ sleeps' = 0 /\ terminalAt' = 0
    /\ terminalKind' = "none" /\ lastProbeAt' = 0 /\ wait' = "none"
    /\ goneSeen' = FALSE /\ listedSeen' = FALSE
    /\ UNCHANGED <<cluster_id, exists, am_resolved, opsDone, temp_files, command>>

(* ---------------------------- specification --------------------------- *)
Next ==
    \/ \E n \in Names, w \in BOOLEAN, cfg \in Configs : create_cluster(n, w, cfg)
    \/ \E n \in Names : wait_for_cluster_ready(n)
    \/ wait_for_cluster_ready_loop
    \/ \E n \in Names : delete_cluster(n)
    \/ delete_cluster_submit
    \/ wait_for_cluster_deleted
    \/ \E n \in Names : get_cluster_info(n)
    \/ get_cluster_info_describe
    \/ \E n \in Names, d \in BOOLEAN : install_rhods(n, d)
    \/ install_operator
    \/ wait_for_operator_ready
    \/ install_addon
    \/ wait_for_addon_ready
    \/ \E n \in Names : install_gpu_addon(n)
    \/ \E n \in Names : uninstall_addon(n)
    \/ uninstall_addon_submit
    \/ wait_for_addon_uninstalled
    \/ \E n \in Names, r \in BOOLEAN : add_machine_pool(n, r)
    \/ machine_pool_exists
    \/ create_machinepool
    \/ \E n \in Names : list_addons(n)
    \/ list_addons_list
    \/ caller_continues
    \/ \E c \in Commands, f \in BOOLEAN, a \in BOOLEAN : cli_command(c, f, a)
    \/ install_ocm_cli
    \/ install_ocm_cli_download
    \/ login
    \/ cli_exit
    \/ \E n \in Names : ControlPlaneRemoves(n)

Spec == Init /\ [][Next]_vars

(* ------------------------- properties: the waits ---------------------- *)
\* the budget and the interval each wait is documented with
TimeoutOf(w) ==
    CASE w = "cluster_ready" -> CLUSTER_READY_TIMEOUT
      [] w = "cluster_deleted" -> CLUSTER_DELETED_TIMEOUT
      [] w = "addon_ready" -> ADDON_READY_TIMEOUT
      [] w = "addon_uninstalled" -> ADDON_UNINSTALLED_TIMEOUT
      [] w = "operator_ready" -> OPERATOR_READY_TIMEOUT
      [] OTHER -> 0
IntervalOf(w) == IF w = "operator_ready" THEN OPERATOR_POLL_INTERVAL ELSE POLL_INTERVAL

\* the operation is over
Ended == pc = "done"
\* a wait ran out of budget: TimeoutError, or the operator wait's warning
RanOut ==
    \/ Ended /\ outcome = "TimeoutError"
    \/ wait = "operator_ready" /\ trace # <<>> /\ trace[Len(trace)].ev = "warning"

\* C1: delete_cluster does not end in TimeoutError when one of its
\* deletion polls ran while the control plane no longer listed the cluster
\* (its lookup would have answered with an empty identifier): it returns
\* normally.
C1_DeleteReturnsOnceGone ==
    (Ended /\ op.fn = "delete_cluster" /\ goneSeen) => outcome = "ok"

\* C2: a probe is made only while count < timeout, and a wait that runs
\* out of budget has made exactly timeout/interval probes and stops with
\* count = timeout.
C2_ProbesOnlyBelowTimeout ==
    /\ (wait # "none" /\ probes > 0) => lastProbeAt < TimeoutOf(wait)
    /\ RanOut => /\ probes * IntervalOf(wait) = TimeoutOf(wait)
                 /\ count = TimeoutOf(wait)

\* C3: TimeoutError is raised only with count >= timeout and only when no
\* probe of the wait read a success or failure state.
C3_TimeoutNeverEarly ==
    (Ended /\ outcome = "TimeoutError") =>
        /\ wait \in {"cluster_ready", "cluster_deleted", "addon_ready", "addon_uninstalled"}
        /\ count >= TimeoutOf(wait)
        /\ terminalAt = 0 /\ terminalKind = "none"

\* C3 witness: wait_for_cluster_ready ended in TimeoutError
C3_Witness ==
    Ended /\ outcome = "TimeoutError" /\ op.fn = "wait_for_cluster_ready"

\* the waits with a success state read from a probe
StateWaits == {"cluster_ready", "addon_ready", "addon_uninstalled"}

\* C4 as stated: when the first success state is read by probe k, the wait
\* returns after exactly k probes and k interval sleeps.
C4_Original ==
    (wait \in StateWaits /\ terminalKind = "success") =>
        /\ Ended /\ outcome = "ok"
        /\ probes = terminalAt /\ sleeps = terminalAt

\* C4 amended: when the first success state is read by probe k, the wait
\* returns normally after exactly k probes and k - 1 interval sleeps (one
\* sleep between two probes, none after the last), and a normal return
\* always rests on such a probe.
C4_SuccessAtProbeK ==
    /\ (wait \in StateWaits /\ terminalKind = "success") =>
          /\ Ended /\ outcome = "ok"
          /\ probes = terminalAt /\ sleeps = terminalAt - 1
          /\ count = sleeps * POLL_INTERVAL
    /\ (Ended /\ outcome = "ok" /\ wait \in StateWaits) => terminalKind = "success"

\* C4 witness: the readiness probes read pending, pending, ready
C4_Witness ==
    /\ Ended /\ outcome = "ok" /\ op.fn = "wait_for_cluster_ready"
    /\ terminalKind = "success" /\ terminalAt = 3 /\ probes = 3 /\ sleeps = 2

\* C5: when the first terminal state read is a failure state (cluster
\* error, add-on failed), read by probe k, the wait ends in RuntimeError
\* after exactly k probes, whatever budget is left.
C5_FailureAtProbeK ==
    (wait \in {"cluster_ready", "addon_ready"} /\ terminalKind = "failure") =>
        /\ Ended /\ outcome = "RuntimeError"
        /\ probes = terminalAt /\ sleeps = terminalAt - 1
        /\ count <= TimeoutOf(wait)

\* C5 witness: the add-on is read as failed by the second probe, with
\* nearly all of the budget left
C5_Witness ==
    /\ Ended /\ outcome = "RuntimeError" /\ wait = "addon_ready"
    /\ terminalKind = "failure" /\ probes = 2 /\ count = POLL_INTERVAL

(* -------------------- properties: install_rhods ----------------------- *)
\* C6: in install_rhods with install_dependencies the operation's events
\* are, in this order: apply and wait-return of authorino-operator, of
\* servicemeshoperator, of serverless-operator, then the add-on post (then
\* the settle delay); no apply precedes the return of the previous wait,
\* and the post follows the third wait's return.
C6_ThreeCyclesInOrder ==
    (op.fn = "install_rhods" /\ op.flag) =>
        /\ Len(trace) <= 2 * Len(dependencies) + 2
        /\ \A i \in 1..Len(trace) :
            IF i <= 2 * Len(dependencies)
            THEN IF i % 2 = 1
                 THEN trace[i] = Ev("oc apply", dependencies[(i + 1) \div 2])
                 ELSE /\ trace[i].ev \in {"ready", "warning"}
                      /\ trace[i].who = dependencies[i \div 2]
            ELSE IF i = 2 * Len(dependencies) + 1
                 THEN trace[i].ev = "post addon"
                 ELSE trace[i].ev = "settle"

\* C6 witness: the add-on post was issued as the seventh event
C6_Witness ==
    /\ op.fn = "install_rhods" /\ op.flag
    /\ Len(trace) >= 7 /\ trace[7].ev = "post addon" /\ trace[6].ev = "ready"

\* C7: when _wait_for_operator_ready runs out of budget it prints the
\* warning and returns, and install_rhods goes on with the next operator
\* or the add-on install; every other wait that runs out of budget ends
\* its operation in TimeoutError.
C7_OperatorTimeoutWarns ==
    [][ /\ (pc = "wait_for_operator_ready" /\ count > OPERATOR_READY_TIMEOUT /\ pc' # pc) =>
            /\ trace' = Append(trace, Ev("warning", dependencies[dep]))
            /\ outcome' = "running"
            /\ pc' = IF dep < Len(dependencies) THEN "install_operator" ELSE "install_addon"
        /\ (/\ pc \in {"wait_for_cluster_ready", "wait_for_cluster_deleted",
                       "wait_for_addon_ready", "wait_for_addon_uninstalled"}
            /\ count > TimeoutOf(wait) /\ pc' # pc) =>
            (pc' = "done" /\ outcome' = "TimeoutError")
        /\ (outcome' = "TimeoutError" => wait' # "operator_ready")
      ]_vars

\* C7 witness: all three operator waits ran out and the add-on was posted
C7_Witness ==
    /\ op.fn = "install_rhods" /\ Len(trace) >= 7
    /\ trace[2].ev = "warning" /\ trace[4].ev = "warning" /\ trace[6].ev = "warning"
    /\ trace[7].ev = "post addon"

CmResolvingOps == {"wait_for_cluster_ready", "delete_cluster", "get_cluster_info"}
AmOps == {"install_rhods", "install_gpu_addon", "uninstall_addon",
          "add_machine_pool", "list_addons"}

\* C9 as stated: once cluster_id is set no operation changes it.
C9_Original ==
    [][ cluster_id # None => cluster_id' = cluster_id ]_vars

\* C9 amended: once cluster_id is set, wait_for_cluster_ready,
\* delete_cluster and get_cluster_info never change it and resolve to it
\* without a lookup, also after the cluster is gone; only a create_cluster
\* whose post succeeded replaces it, by the identifier of the response.
C9_HandleKept ==
    [][ cluster_id # None =>
            /\ cluster_id' # cluster_id =>
                  /\ opsDone' = opsDone + 1 /\ op'.fn = "create_cluster"
                  /\ call' = Cmd("post clusters", 0, "cm", op'.name)
                  /\ outcome' = "ok" /\ cluster_id' = ret'
            /\ (opsDone' = opsDone + 1 /\ op'.fn \in CmResolvingOps) =>
                  /\ local_id' = cluster_id /\ cluster_id' = cluster_id
                  /\ call' = NoCall /\ outcome' = "running"
      ]_vars

\* C9 witness: an operation resolved to the handle of a cluster that the
\* control plane no longer lists
C9_Witness ==
    /\ opsDone = 2 /\ op.fn = "get_cluster_info" /\ op.name = "demo"
    /\ pc = "get_cluster_info" /\ local_id = "id-demo" /\ cluster_id = "id-demo"
    /\ "demo" \notin exists

C11_ProviderSelectsBlock ==
    (op.fn = "create_cluster" /\ config # NoConfig) =>
        /\ config.cloud_provider = "aws" =>
              ("aws" \in cluster_spec /\ "gcp" \notin cluster_spec)
        /\ config.cloud_provider = "gcp" =>
              ("gcp" \in cluster_spec /\ "aws" \notin cluster_spec)

\* the calls that write their request body to a temporary file
BodyCalls == {"post clusters", "post addon", "oc apply"}

\* C12: when create_cluster, _install_addon or _install_operator has
\* completed, its temporary file is not on the filesystem, whether the
\* subprocess exited 0, exited non-zero, or the response did not parse.
C12_TempFileGone ==
    /\ call.cmd \in BodyCalls => temp_files = {}
    /\ Ended => temp_files = {}

\* C12 witness: create_cluster ended in the parse error of a response
\* whose post had exited 0
C12_Witness ==
    /\ Ended /\ op.fn = "create_cluster" /\ outcome = "JSONDecodeError"
    /\ call.cmd = "post clusters" /\ call.rc = 0 /\ temp_files = {}

(* --------------------- properties: machine pools ---------------------- *)
\* C13: add_machine_pool with reuse_existing, when the listing shows a
\* pool of the configured name, has issued no 'create machinepool' call
\* and no delay, and has returned normally.
C13_ReuseCreatesNothing ==
    (/\ op.fn = "add_machine_pool" /\ op.flag
     /\ call.cmd = "list machinepools" /\ call.rc = 0
     /\ pool_name \in call.data) =>
        /\ Ended /\ outcome = "ok"
        /\ trace = <<>> /\ sleeps = 0

\* C13 witness: the pool was listed next to another one and the call
\* returned
C13_Witness ==
    /\ Ended /\ op.fn = "add_machine_pool" /\ op.flag /\ outcome = "ok"
    /\ call.cmd = "list machinepools" /\ call.rc = 0
    /\ call.data = {pool_name, <<"w">>} /\ trace = <<>>

(* ------------------ properties: cluster readiness --------------------- *)
\* number of settle delays slept so far in the running command
SettleCount == Cardinality({i \in 1..Len(trace) : trace[i].ev = "settle"})

\* C14: wait_for_cluster_ready sleeps the settle delay exactly once, in
\* the step of the first probe that reads 'ready' and before it returns;
\* it sleeps none when it ends in the error-state failure or in
\* TimeoutError, and it returns normally only after a probe read 'ready'.
C14_SettleOnceAfterReady ==
    op.fn = "wait_for_cluster_ready" =>
        /\ SettleCount <= 1
        /\ SettleCount = 1 <=>
              /\ Ended /\ outcome = "ok"
              /\ terminalKind = "success" /\ probes = terminalAt
              /\ trace[Len(trace)].ev = "settle"
        /\ (Ended /\ outcome \in {"RuntimeError", "TimeoutError"}) => SettleCount = 0
        /\ (Ended /\ outcome = "ok") =>
              (call.cmd = "describe cluster" /\ call.data = "ready")

\* C14 witness: the second probe read 'ready' and the wait returned after
\* one settle delay
C14_Witness ==
    /\ Ended /\ op.fn = "wait_for_cluster_ready" /\ outcome = "ok"
    /\ probes = 2 /\ terminalAt = 2 /\ SettleCount = 1

(* ------------------- properties: cluster creation --------------------- *)
\* the running orchestrator call belongs to a create command
InCreateCommand == trace # <<>> /\ trace[1].ev = "post clusters"

\* C15: create_cluster returns the identifier of the creation response;
\* the wait_for_cluster_ready that follows probes the cluster of that
\* identifier and, when its probes read pending, pending, ready, returns
\* normally after the settle delay; the get_cluster_info that follows
\* comes after post and settle delay and reports the state it reads,
\* ready.
C15_CreateWaitInfo ==
    /\ (Ended /\ op.fn = "create_cluster" /\ outcome = "ok") =>
          (ret = IdOf(op.name) /\ cluster_id = ret)
    /\ (InCreateCommand /\ op.fn = "wait_for_cluster_ready") =>
          /\ local_id = IdOf(op.name)
          /\ call.cmd = "describe cluster" => call.arg = IdOf(op.name)
          /\ (terminalKind = "success" /\ terminalAt = 3) =>
                /\ Ended /\ outcome = "ok" /\ probes = 3
                /\ trace = <<Ev("post clusters", op.name), Ev("settle", IdOf(op.name))>>
    /\ (InCreateCommand /\ op.fn = "get_cluster_info") =>
          /\ trace = <<Ev("post clusters", op.name), Ev("settle", IdOf(op.name))>>
          /\ local_id = IdOf(op.name)
          /\ (call.cmd = "describe cluster" /\ call.rc = 0 /\ call.data = "ready") =>
                (Ended /\ outcome = "ok" /\ ret = "ready")

\* C15 witness: the create command ended with the info call reporting
\* ready, after post and settle delay
C15_Witness ==
    /\ Ended /\ op.fn = "get_cluster_info" /\ outcome = "ok" /\ ret = "ready"
    /\ trace = <<Ev("post clusters", "demo"), Ev("settle", "id-demo")>>
    /\ cluster_id = "id-demo"

\* C16: create_cluster issues one creation post and returns: no state
\* probe, no sleep.  A state probe is issued only by wait_for_cluster_ready
\* and get_cluster_info, and the create command goes on to
\* wait_for_cluster_ready only when it was given --wait and create_cluster
\* returned.
C16_CreateDoesNotPoll ==
    [][ /\ (opsDone' = opsDone + 1 /\ op'.fn = "create_cluster") =>
              /\ call'.cmd = "post clusters" /\ pc' = "done"
              /\ trace' = <<Ev("post clusters", op'.name)>>
              /\ probes' = 0 /\ sleeps' = 0 /\ wait' = "none"
        /\ (op.fn = "create_cluster" /\ op'.fn = "wait_for_cluster_ready") =>
              (op.flag /\ outcome = "ok")
        /\ call'.cmd = "describe cluster" =>
              op'.fn \in {"wait_for_cluster_ready", "get_cluster_info"}
      ]_vars

\* C16 witness: create_cluster returned for a command run with --no-wait
C16_Witness ==
    /\ Ended /\ op.fn = "create_cluster" /\ ~op.flag /\ outcome = "ok"
    /\ call.cmd = "post clusters" /\ probes = 0 /\ pending = <<>>

(* ---------------------- properties: add-ons --------------------------- *)
\* C17: uninstall_addon submits the removal once, before any state probe,
\* then polls every 60s within the 3600s budget; it returns normally
\* exactly when a probe read 'not installed'; a probe that reads any other
\* state, 'failed' included, leaves the wait running, and a wait whose
\* probes all read other states ends in TimeoutError.
C17_UninstallPollsUntilGone ==
    op.fn = "uninstall_addon" =>
        /\ Len(trace) <= 1
        /\ wait = "addon_uninstalled" =>
              /\ trace = <<Ev("delete addon", local_id)>>
              /\ count = sleeps * POLL_INTERVAL
              /\ lastProbeAt <= ADDON_UNINSTALLED_TIMEOUT
        /\ probes > 0 => wait = "addon_uninstalled"
        /\ Ended => (outcome = "ok" <=> terminalKind = "success")
        /\ (call.cmd = "list addons" /\ call.rc = 0) =>
              IF call.data = "not installed"
              THEN Ended /\ outcome = "ok" /\ probes = terminalAt
              ELSE pc = "wait_for_addon_uninstalled" /\ outcome = "running"
        /\ (Ended /\ wait = "addon_uninstalled" /\ call.rc = 0 /\ outcome # "ok") =>
              /\ outcome = "TimeoutError"
              /\ count > ADDON_UNINSTALLED_TIMEOUT /\ terminalKind = "none"

\* C17 witness: the third probe read 'not installed' and the call returned
C17_Witness ==
    /\ Ended /\ op.fn = "uninstall_addon" /\ outcome = "ok"
    /\ terminalAt = 3 /\ probes = 3 /\ trace = <<Ev("delete addon", local_id)>>

\* number of add-on posts issued so far in the running operation
PostCount == Cardinality({i \in 1..Len(trace) : trace[i].ev = "post addon"})

\* C18: install_rhods and install_gpu_addon issue one add-on post, then
\* poll every 60s within the 3600s budget until a probe reads 'ready' or
\* 'failed', and sleep one settle delay only after 'ready'; on 'failed'
\* (RuntimeError) or on timeout they raise without settle delay.
\* install_gpu_addon issues no oc call and posts no parameters,
\* install_rhods posts the notification-email parameter.
C18_SubmitPollSettle ==
    op.fn \in {"install_rhods", "install_gpu_addon"} =>
        /\ PostCount <= 1 /\ SettleCount <= 1
        /\ (wait = "addon_ready" \/ call.cmd = "list addons") =>
              /\ PostCount = 1
              /\ count = sleeps * POLL_INTERVAL
              /\ lastProbeAt <= ADDON_READY_TIMEOUT
        /\ SettleCount = 1 <=>
              /\ Ended /\ outcome = "ok" /\ wait = "addon_ready"
              /\ terminalKind = "success" /\ probes = terminalAt
              /\ trace[Len(trace)].ev = "settle" /\ trace[Len(trace) - 1].ev = "post addon"
        /\ (call.cmd = "list addons" /\ call.rc = 0) =>
              IF call.data = "ready" THEN Ended /\ outcome = "ok"
              ELSE IF call.data = "failed" THEN Ended /\ outcome = "RuntimeError"
              ELSE pc = "wait_for_addon_ready" /\ outcome = "running"
        /\ (Ended /\ outcome \in {"RuntimeError", "TimeoutError"}) =>
              (SettleCount = 0 /\ wait = "addon_ready")
        /\ call.cmd = "post addon" =>
              ("parameters.notification-email" \in call.data <=> op.fn = "install_rhods")
        /\ op.fn = "install_gpu_addon" =>
              /\ call.cmd \notin {"oc apply", "oc get csv"}
              /\ \A i \in 1..Len(trace) : trace[i].ev \in {"post addon", "settle"}

\* C18 witness: install_gpu_addon returned after post, two probes and the
\* settle delay
C18_Witness ==
    /\ Ended /\ op.fn = "install_gpu_addon" /\ outcome = "ok" /\ probes = 2
    /\ trace = <<Ev("post addon", "install_gpu_addon"), Ev("settle", local_id)>>

(* -------------------- properties: name resolution --------------------- *)
\* the step enters an operation that starts with a name resolution
ResolvingEntry == opsDone' = opsDone + 1 /\ op'.fn # "create_cluster"

\* C19: a resolution ends in ValueError exactly when its lookup answered
\* with an empty identifier.  The operation then has issued no mutating
\* call and no probe and issues none afterwards, the ClusterManager cache
\* is still empty, and a ClusterManager with an empty cache resolves by a
\* fresh lookup.
C19_NotFoundOnEmptyLookup ==
    [][ /\ ResolvingEntry =>
              (outcome' = "ValueError" <=>
                  /\ call'.cmd = "list clusters" /\ call'.rc = 0
                  /\ LookupStdout(op'.name) = "")
        /\ outcome' = "ValueError" =>
              /\ ResolvingEntry /\ pc' = "done"
              /\ trace' = <<>> /\ probes' = 0 /\ sleeps' = 0
              /\ call'.inst = "cm" => (cluster_id = None /\ cluster_id' = None)
        /\ outcome = "ValueError" => (call' = NoCall /\ pc' \in {"idle", "exited"})
        /\ (ResolvingEntry /\ op'.fn \in CmResolvingOps /\ cluster_id = None) =>
              (call'.cmd = "list clusters" /\ call'.arg = op'.name)
      ]_vars

\* C19 witness: a second operation on the ClusterManager, whose cache is
\* empty, looked the name up and ended in ValueError
C19_Witness ==
    /\ opsDone = 2 /\ Ended /\ op.fn = "delete_cluster" /\ outcome = "ValueError"
    /\ cluster_id = None /\ call.cmd = "list clusters" /\ call.rc = 0
    /\ trace = <<>> /\ probes = 0

(* ----------------------- properties: info ----------------------------- *)
\* C20: every get_cluster_info that has resolved its cluster issues one
\* 'describe cluster' call for it and, when it returns, returns the state
\* of that call's output; the step stores nothing on the ClusterManager.
C20_InfoIsFresh ==
    [][ /\ (ResolvingEntry /\ op'.fn = "get_cluster_info" /\ outcome' = "running") =>
              pc' = "get_cluster_info"
        /\ pc = "get_cluster_info" =>
              /\ call'.cmd = "describe cluster" /\ call'.arg = local_id
              /\ pc' = "done"
              /\ outcome' = "ok" <=> (call'.rc = 0 /\ call'.data \in ClusterStates)
              /\ outcome' = "ok" => ret' = call'.data
              /\ cluster_id' = cluster_id
      ]_vars

\* C20 witness: a second call on the instance, which already held the
\* handle, described the cluster again and returned the state it read
C20_Witness ==
    /\ opsDone = 2 /\ Ended /\ op.fn = "get_cluster_info" /\ outcome = "ok"
    /\ call.cmd = "describe cluster" /\ call.data = "error" /\ ret = "error"

(* ---------------------- properties: termination ----------------------- *)
\* the positions inside the five wait loops
WaitPcs ==
    {"wait_for_cluster_ready", "wait_for_cluster_deleted", "wait_for_operator_ready",
     "wait_for_addon_ready", "wait_for_addon_uninstalled"}

\* the step leaves a wait by its success: a normal return, for the
\* operator wait the move to the next operator or to the add-on install
EndsInSuccess ==
    /\ terminalKind' = "success"
    /\ IF wait = "operator_ready"
       THEN /\ pc' \in {"install_operator", "install_addon"} /\ outcome' = "running"
            /\ trace'[Len(trace')].ev = "ready"
       ELSE pc' = "done" /\ outcome' = "ok"

\* the step leaves a wait because a probe read the failure state
EndsInFailureState ==
    /\ wait \in {"cluster_ready", "addon_ready"} /\ terminalKind' = "failure"
    /\ pc' = "done" /\ outcome' = "RuntimeError"

\* the step leaves a wait whose budget is used up, without a probe
EndsInTimeout ==
    /\ count > TimeoutOf(wait) /\ call' = NoCall /\ terminalKind' = "none"
    /\ IF wait = "operator_ready"
       THEN /\ pc' \in {"install_operator", "install_addon"} /\ outcome' = "running"
            /\ trace'[Len(trace')].ev = "warning"
       ELSE pc' = "done" /\ outcome' = "TimeoutError"

\* the probe of the step did not return: its subprocess exited non-zero
\* (caught in the operator wait only) or its output did not parse
ProbeRaised ==
    /\ pc' = "done"
    /\ \/ call'.rc # 0 /\ outcome' = "CalledProcessError" /\ wait # "operator_ready"
       \/ /\ call'.rc = 0 /\ outcome' = "JSONDecodeError"
          /\ wait \in {"cluster_ready", "operator_ready"}

\* C21: a wait makes at most timeout/interval + 1 probes; each of its
\* steps either ends it or makes one probe and adds one interval to count,
\* which never passes timeout + interval, so no wait loops forever; and a
\* wait whose probes all returned ends in exactly one of success, failure
\* state and timeout (the warning, for the operator wait).
C21_WaitsEnd ==
    [][ (pc \in WaitPcs) =>
            /\ count <= TimeoutOf(wait) + IntervalOf(wait)
            /\ probes * IntervalOf(wait) <= TimeoutOf(wait) + IntervalOf(wait)
            /\ (pc' = pc /\ exists' = exists) =>
                  /\ count <= TimeoutOf(wait)
                  /\ probes' = probes + 1 /\ count' = count + IntervalOf(wait)
            /\ (pc' # pc /\ ~ProbeRaised) =>
                  \/ (EndsInSuccess /\ ~EndsInFailureState /\ ~EndsInTimeout)
                  \/ (EndsInFailureState /\ ~EndsInTimeout)
                  \/ EndsInTimeout
      ]_vars

\* C21 witness: the deletion wait used up its budget of 5400s in 91
\* probes and ended in TimeoutError
C21_Witness ==
    /\ Ended /\ wait = "cluster_deleted" /\ outcome = "TimeoutError"
    /\ probes * POLL_INTERVAL = CLUSTER_DELETED_TIMEOUT + POLL_INTERVAL
    /\ count = CLUSTER_DELETED_TIMEOUT + POLL_INTERVAL

(* --------------------- properties: command line ----------------------- *)
\* C22: a destructive command (cluster delete, addon uninstall) run
\* without --force and with the confirmation declined has exited with no
\* login, no resolution and no delete made; a delete call of a destructive
\* command is made only after confirmation or with --force.
C22_DeclinedCallsNothing ==
    /\ (command.cmd \in Destructive /\ ~command.force /\ ~command.confirm) =>
          /\ pc = "exited" /\ exit_status = 0
          /\ opsDone = 0 /\ op = NoOp /\ outcome = "none"
          /\ call = NoCall /\ trace = <<>>
    /\ (command.cmd \in Destructive /\ call.cmd \in {"delete cluster", "delete addon"}) =>
          (command.force \/ command.confirm)

\* C22 witness: `cluster delete` was declined while the cluster existed,
\* and the process has exited
C22_Witness ==
    /\ command = [cmd |-> "cluster delete", force |-> FALSE, confirm |-> FALSE]
    /\ pc = "exited" /\ exists = Names /\ call = NoCall

\* C23: a command whose orchestrator call raised (command failure, not
\* found, operation failed, timeout, unparsable output) makes no further
\* call and exits with a non-zero status; a command exits with status 0
\* only when no call of it raised: each call it made, login included,
\* returned before the next was made, the last one returned, and none was
\* left to make.
C23_ExitStatus ==
    [][ /\ (command' # NoCommand /\ outcome' \notin {"ok", "running", "none"}) =>
              pc' = "done"
        /\ (command # NoCommand /\ pc = "done" /\ outcome # "ok") =>
              (pc' = "exited" /\ exit_status' # 0)
        /\ (command # NoCommand /\ opsDone' = opsDone + 1) =>
              /\ outcome \in {"ok", "none"}
              /\ call.cmd \in {"login", "post clusters", "describe cluster", "none"}
              /\ call.rc = 0
        /\ (pc' = "exited" /\ pc # "exited") =>
              /\ exit_status' = 0 <=> outcome \in {"ok", "none"}
              /\ (exit_status' = 0 /\ outcome = "ok") => pending = <<>>
      ]_vars

\* C23 witness: `cluster create --wait` exited with status 1 after
\* create_cluster had returned and wait_for_cluster_ready had raised
C23_Witness ==
    /\ command.cmd = "cluster create" /\ pc = "exited" /\ exit_status = 1
    /\ opsDone = 2 /\ cluster_id = "id-demo"

(* ------------------ properties: structured output --------------------- *)
\* the calls whose stdout is parsed as JSON
StructuredCalls == {"post clusters", "describe cluster", "list addons json", "oc get csv"}

\* C24: when a structured-output call (creation post, describe cluster,
\* list addons --output json, oc get csv) exits 0 with stdout that is not
\* JSON, the operation ends with that step in JSONDecodeError and returns
\* no value; the error is handed to the caller (a command exits non-zero),
\* and the wait the call belongs to neither sleeps nor probes again.
C24_MalformedResponseRaises ==
    [][ /\ (/\ call'.cmd \in StructuredCalls /\ call'.rc = 0
            /\ call'.data = NotJson) =>
              /\ pc' = "done" /\ outcome' = "JSONDecodeError" /\ ret' = None
              /\ sleeps' = sleeps /\ count' = count
              /\ call'.cmd = "post clusters" => cluster_id' = cluster_id
        /\ outcome' = "JSONDecodeError" =>
              (call'.cmd \in StructuredCalls /\ call'.rc = 0 /\ call'.data = NotJson)
        /\ outcome = "JSONDecodeError" =>
              /\ pc' \in {"idle", "exited"} /\ call' = NoCall
              /\ pc' = "exited" => exit_status' # 0
      ]_vars

\* C24 witness: the second `oc get csv` of an operator wait exited 0 with
\* output that is not JSON, and install_rhods ended in JSONDecodeError
C24_Witness ==
    /\ Ended /\ op.fn = "install_rhods" /\ wait = "operator_ready"
    /\ outcome = "JSONDecodeError"
    /\ call.cmd = "oc get csv" /\ call.rc = 0 /\ call.data = NotJson /\ probes = 2

(* ----------------- properties: machine pool creation ------------------ *)
\* what add_machine_pool leaves in trace when it has created the pool
CreatedPool == <<Ev("create machinepool", local_id), Ev("sleep 60", local_id)>>

\* C25: add_machine_pool never polls; with reuse_existing = false it does
\* not list the pools; and when it returns it has issued exactly one
\* 'create machinepool' call followed by one 60s delay, except when
\* reuse_existing = true and the listing shows a pool of the configured
\* name, where it has issued none.
C25_CreatesUnlessListed ==
    op.fn = "add_machine_pool" =>
        /\ probes = 0 /\ sleeps = 0 /\ wait = "none"
        /\ ~op.flag => call.cmd # "list machinepools"
        /\ (Ended /\ outcome = "ok") =>
              IF op.flag /\ call.cmd = "list machinepools" /\ pool_name \in call.data
              THEN trace = <<>>
              ELSE trace = CreatedPool /\ call.cmd = "create machinepool"

(* ----------------- properties: dependency operators ------------------- *)
\* the calls of the cluster-access CLI
OcCalls == {"oc apply", "oc get csv"}

\* C26: install_rhods starts with the lookup of the cluster name, and an
\* oc call (operator subscription or readiness probe) is made only by an
\* install_rhods with install_dependencies whose lookup returned an
\* identifier; without install_dependencies it goes from the resolution
\* to the add-on post, makes no oc call, and returns after post, polls
\* and settle delay.
C26_NoDependenciesNoOperators ==
    [][ /\ (opsDone' = opsDone + 1 /\ op'.fn = "install_rhods") =>
              /\ call'.cmd = "list clusters" /\ call'.arg = op'.name
              /\ trace' = <<>>
              /\ IF outcome' = "running"
                 THEN /\ local_id' = IdOf(op'.name)
                      /\ pc' = IF op'.flag THEN "install_operator" ELSE "install_addon"
                 ELSE pc' = "done" /\ local_id' = None
        /\ call'.cmd \in OcCalls =>
              /\ op.fn = "install_rhods" /\ op.flag /\ op' = op
              /\ outcome = "running" /\ local_id = IdOf(op.name)
        /\ (op'.fn = "install_rhods" /\ ~op'.flag) =>
              /\ \A i \in 1..Len(trace') : trace'[i].ev \in {"post addon", "settle"}
              /\ wait' \in {"none", "addon_ready"}
              /\ (pc' = "done" /\ outcome' = "ok") =>
                    /\ trace' = <<Ev("post addon", "install_rhods"), Ev("settle", local_id')>>
                    /\ probes' >= 1 /\ wait' = "addon_ready"
      ]_vars

\* C26 witness: install_rhods without install_dependencies returned after
\* the post, two probes and the settle delay
C26_Witness ==
    /\ Ended /\ op.fn = "install_rhods" /\ ~op.flag /\ outcome = "ok"
    /\ trace = <<Ev("post addon", "install_rhods"), Ev("settle", local_id)>>
    /\ probes = 2

\* C27: in install_rhods a failing `oc apply` for operator i ends the
\* operation in that error with the apply as its last event: no readiness
\* probe for operator i, no call at all afterwards.  An `oc get csv` probe
\* that exits non-zero, or that is read and does not show the operator as
\* Succeeded, leaves the wait running (one more sleep); and whenever the
\* wait of operator i is left without an error the next operator's apply,
\* or after the third the add-on post, is what comes next.
C27_ApplyFailureAborts ==
    [][ /\ (call'.cmd = "oc apply" /\ call'.rc # 0) =>
              /\ pc' = "done" /\ outcome' = "CalledProcessError"
              /\ trace' = Append(trace, Ev("oc apply", dependencies[dep]))
              /\ Len(trace') = 2 * dep - 1
              /\ probes' = probes /\ sleeps' = sleeps /\ dep' = dep
        /\ (pc = "done" /\ op.fn = "install_rhods" /\ outcome = "CalledProcessError") =>
              (call' = NoCall /\ pc' \in {"idle", "exited"})
        /\ (call'.cmd = "oc get csv" /\ (call'.rc # 0 \/ call'.data # NotJson)) =>
              IF call'.rc = 0 /\ terminalKind' = "success"
              THEN pc' \in {"install_operator", "install_addon"} /\ outcome' = "running"
              ELSE /\ pc' = pc /\ outcome' = "running" /\ dep' = dep
                   /\ sleeps' = sleeps + 1 /\ trace' = trace
        /\ (pc = "wait_for_operator_ready" /\ pc' # pc /\ pc' # "done") =>
              IF dep < Len(dependencies)
              THEN pc' = "install_operator" /\ dep' = dep + 1
              ELSE pc' = "install_addon"
        /\ pc = "install_operator" => call' = Cmd("oc apply", call'.rc, "am", dependencies[dep])
        /\ pc = "install_addon" => call'.cmd = "post addon"
      ]_vars

\* C27 witness: the wait for the first operator ran out after probes that
\* never showed it ready, the second operator was applied all the same,
\* and the failure of that apply ended install_rhods
C27_Witness ==
    /\ Ended /\ op.fn = "install_rhods" /\ outcome = "CalledProcessError"
    /\ call.cmd = "oc apply" /\ call.rc # 0
    /\ trace = <<Ev("oc apply", dependencies[1]), Ev("warning", dependencies[1]),
                 Ev("oc apply", dependencies[2])>>

(* -------------------- properties: the single slot --------------------- *)
\* C28: the ClusterManager keeps one identifier, whatever name it belongs
\* to.  A resolution that finds the slot empty looks the name up and
\* stores the identifier found; create_cluster stores the identifier of
\* its response; and once the slot is set, wait_for_cluster_ready,
\* delete_cluster and get_cluster_info resolve any name, also another
\* one, to the stored identifier without a lookup, and their describe and
\* delete calls go to that cluster.
C28_SingleSlot ==
    [][ /\ (opsDone' = opsDone + 1 /\ op'.fn \in CmResolvingOps) =>
              IF cluster_id # None
              THEN /\ call' = NoCall /\ outcome' = "running"
                   /\ local_id' = cluster_id /\ cluster_id' = cluster_id
              ELSE /\ call'.cmd = "list clusters" /\ call'.arg = op'.name
                   /\ outcome' = "running" =>
                         (cluster_id' = IdOf(op'.name) /\ local_id' = cluster_id')
                   /\ outcome' # "running" => cluster_id' = None
        /\ (opsDone' = opsDone + 1 /\ op'.fn = "create_cluster" /\ outcome' = "ok") =>
              cluster_id' = IdOf(op'.name)
        /\ (call'.inst = "cm" /\ call'.cmd \in {"describe cluster", "delete cluster"}) =>
              (cluster_id # None /\ call'.arg = cluster_id)
      ]_vars

\* C28 witness: after an operation on 'demo' had set the slot,
\* delete_cluster('other') issued the delete for the cluster of 'demo'
C28_Witness ==
    /\ op.fn = "delete_cluster" /\ op.name = "other"
    /\ cluster_id = IdOf("demo")
    /\ call = Cmd("delete cluster", 0, "cm", IdOf("demo"))

(* ------------------- properties: cluster deletion --------------------- *)
\* C29: delete_cluster issues `ocm delete cluster` once: after its
\* resolution returned an identifier, for that identifier, and before any
\* deletion poll.  A deletion poll starts no subprocess and issues no
\* delete, and the deletion wait ends in no error but TimeoutError.
C29_DeleteIssuedOnce ==
    [][ /\ call'.cmd = "delete cluster" =>
              /\ pc = "delete_cluster" /\ op.fn = "delete_cluster" /\ op' = op
              /\ outcome = "running" /\ local_id # None /\ call'.arg = local_id
              /\ trace = <<>> /\ trace' = <<Ev("delete cluster", local_id)>>
              /\ probes = 0 /\ probes' = 0 /\ wait = "none"
        /\ (opsDone' = opsDone + 1 /\ op'.fn = "delete_cluster") =>
              /\ trace' = <<>> /\ call'.cmd # "delete cluster"
              /\ pc' = "delete_cluster" <=> (outcome' = "running" /\ local_id' # None)
        /\ pc = "delete_cluster" => call'.cmd = "delete cluster"
        /\ (pc = "delete_cluster" /\ pc' = "wait_for_cluster_deleted") =>
              (call'.rc = 0 /\ wait' = "cluster_deleted")
        /\ (pc = "wait_for_cluster_deleted" /\ exists' = exists) =>
              /\ call' = NoCall /\ trace' = trace
              /\ trace = <<Ev("delete cluster", local_id)>>
              /\ pc' # pc => (pc' = "done" /\ outcome' \in {"ok", "TimeoutError"})
      ]_vars

\* C29 witness: the fifth deletion poll has been made and the delete
\* command is still the operation's only call
C29_Witness ==
    /\ pc = "wait_for_cluster_deleted" /\ op.fn = "delete_cluster"
    /\ probes = 5 /\ sleeps = 5
    /\ trace = <<Ev("delete cluster", local_id)>> /\ call = NoCall

(* ------------------ properties: operator readiness -------------------- *)
\* C30: a probe of _wait_for_operator_ready ends the wait early exactly
\* when the first listed CSV of the operator is in phase Succeeded; a
\* first CSV in another phase (Failed), no CSV of the operator, and an
\* `oc get csv` that exits non-zero each lead to a 10s sleep with the wait
\* still running; no phase ends the wait in an error, and the wait is left
\* without an error only on Succeeded or when its budget is used up.
C30_OperatorWaitHasNoFailureState ==
    [][ /\ call'.cmd = "oc get csv" =>
              /\ pc = "wait_for_operator_ready"
              /\ (call'.rc = 0 /\ call'.data = "Succeeded") <=> terminalKind' = "success"
              /\ IF call'.rc = 0 /\ call'.data = "Succeeded"
                 THEN /\ pc' \in {"install_operator", "install_addon"}
                      /\ trace' = Append(trace, Ev("ready", dependencies[dep]))
                      /\ sleeps' = sleeps /\ count' = count
                 ELSE IF call'.rc # 0 \/ call'.data \in {"Failed", "missing"}
                 THEN /\ pc' = pc /\ outcome' = "running" /\ trace' = trace
                      /\ sleeps' = sleeps + 1
                      /\ count' = count + OPERATOR_POLL_INTERVAL
                 ELSE call'.data = NotJson
        /\ (pc = "wait_for_operator_ready" /\ pc' \in {"install_operator", "install_addon"}) =>
              \/ call'.cmd = "oc get csv" /\ call'.rc = 0 /\ call'.data = "Succeeded"
              \/ call' = NoCall /\ count > OPERATOR_READY_TIMEOUT
        /\ (pc = "wait_for_operator_ready" /\ pc' = "done") =>
              (call'.rc = 0 /\ call'.data = NotJson)
      ]_vars

\* C30 witness: a probe read the operator's first CSV in phase Failed and
\* the wait, still running, has slept a third time
C30_Witness ==
    /\ pc = "wait_for_operator_ready" /\ outcome = "running"
    /\ call.cmd = "oc get csv" /\ call.rc = 0 /\ call.data = "Failed"
    /\ sleeps = 3 /\ probes = 3

\* the step is a probe of an add-on wait that returned, and its listing
\* does not show the add-on
AbsentProbe ==
    /\ pc \in {"wait_for_addon_ready", "wait_for_addon_uninstalled"}
    /\ probes' = probes + 1
    /\ call'.cmd = "list addons" /\ call'.rc = 0
    /\ ~call'.listed

\* C31: a probe whose listing has no line that holds the add-on's name and
\* has two columns or more reads the state "not installed".  On such a probe
\* _wait_for_addon_ready sleeps the interval and goes on, so that a wait
\* whose probes all return and never show the add-on ends in TimeoutError,
\* never in the failed-state error; _wait_for_addon_uninstalled returns
\* successfully on the first such probe.
C31_AbsentIsNotInstalled ==
    [][ /\ AbsentProbe => call'.data = "not installed"
        /\ (AbsentProbe /\ pc = "wait_for_addon_ready") =>
              /\ pc' = pc /\ outcome' = outcome
              /\ sleeps' = sleeps + 1 /\ count' = count + POLL_INTERVAL
        /\ (AbsentProbe /\ pc = "wait_for_addon_uninstalled") =>
              /\ pc' = "done" /\ outcome' = "ok"
              /\ sleeps' = sleeps
        /\ (pc = "wait_for_addon_ready" /\ pc' # pc /\ ~listedSeen' /\ call'.rc = 0) =>
              /\ outcome' = "TimeoutError"
              /\ probes' = probes /\ call' = NoCall
      ]_vars

\* C31 witness: an install wait all of whose probes found the add-on absent has ended
\* by timeout
C31_Witness ==
    /\ pc = "done" /\ wait = "addon_ready"
    /\ outcome = "TimeoutError"
    /\ probes > 0 /\ sleeps = probes
    /\ ~listedSeen

====
